---- MODULE Spec2Model ----
(***************************************************************************)
(* Model of the voice-agent session bridge of VoiceAgent---Rive:           *)
(*   backend/main.py                 session registry, worker pool, client *)
(*                                   message handler                       *)
(*   backend/modules/voice_agent.py  VoiceAgent: run, sender, receiver,    *)
(*                                   function dispatcher, end-call sequence*)
(*   backend/modules/audio_handler.py Speaker queue and playback thread    *)
(*                                                                         *)
(* Several specifications share the module:                                *)
(*   Spec          one bridge: setup, the two loops, the dispatcher, the   *)
(*                 terminating sequence, the coordinator in run()          *)
(*   SpecDuplex    the same bridge with client audio and the sender task   *)
(*   SpecShutdown  the same bridge followed by a second shutdown call      *)
(*   SpecSession   one client session with a silent upstream service;     *)
(*                 SpecSessionFair adds the scheduling of the bridge       *)
(*   SpecAudio     the Speaker queue with its playback thread and flush;   *)
(*                 SpecAudioFair adds the progress of the flush loop       *)
(*   SpecRegistry  the registry voice_agents, start/stop requests and the  *)
(*                 worker pool threads; SpecRegistryFair adds the pool's   *)
(*                 scheduling                                              *)
(***************************************************************************)
EXTENDS Integers, Sequences, FiniteSets, TLC

\* ------------------------------------------------------------------ bounds
\* upstream messages the bridge reads in one run of Spec
MaxMsgs == 4
\* upstream messages the bridge reads in one run of SpecDuplex
MaxDuplexMsgs == 3
\* websocket ids (client connections) in SpecRegistry
NumIds == 2
\* FunctionCallRequest messages among them
MaxCalls == 2
\* client audio chunks put on mic_audio_queue
MaxChunks == 1
\* audio frames pushed to the Speaker in SpecAudio
MaxFrames == 3
\* flushes (Speaker.stop calls) in SpecAudio
MaxFlushes == 2
\* start_voice_agent messages handled in SpecRegistry
MaxStarts == 3
\* stop_voice_agent messages handled in SpecRegistry
MaxStops == 2
\* client audio chunks put on mic_audio_queue in SpecSession
MaxSessionChunks == 3
\* agent audio frames each session puts on its Audio Output Buffer in SpecFan
MaxOutFrames == 1

VARIABLES
    \* ---- one bridge (VoiceAgent instance) -------------------------------
    runpc,            \* position of VoiceAgent.run
    is_running,       \* VoiceAgent.is_running
    shutdown_event,   \* VoiceAgent._shutdown_event
    ws,               \* upstream self.ws: none / open / closing / closed_ok / closed_err
    wsClosedBy,       \* who closed the upstream connection
    registered,       \* this bridge is the registry entry of its websocket id
    rpc,              \* position of the receiver task
    rcause,           \* why the receiver task ended
    cur,              \* the function call the dispatcher is handling
    spc,              \* position of the sender task
    mic_audio_queue,  \* VoiceAgent.mic_audio_queue
    nchunks,          \* client audio chunks accepted so far
    nrecv,            \* upstream messages read so far
    msgBudget,        \* how many upstream messages this run may read
    chunkBudget,      \* how many client audio chunks this run may accept
    client_connected, \* the client-facing connection is in manager.active_connections
    nshutdown,        \* invocations of VoiceAgent.shutdown that have returned
    wpc,              \* position of the shutdown-wait task of run()
    tasks,            \* VoiceAgent.tasks: the managed tasks not yet done
    session_id,       \* ConversationLogger.session_id ("" stands for None)
    conversation,     \* ConversationLogger.conversation
    log_file,         \* ConversationLogger.log_file ("" stands for None)
    persisted,        \* the files of output_dir: file name -> what was last written
    ncalls,           \* call ids handed out so far
    trace,            \* history: observable events of the bridge, in order
    \* ---- Speaker --------------------------------------------------------
    queue,            \* Speaker._queue (janus queue), frames in arrival order
    held,             \* frame the playback thread has pulled and not yet written
    sink,             \* frames handed to the playback sink, in order
    discarded,        \* frames removed by Speaker.stop
    snapshot,         \* frames that were queued when a Speaker.stop call began
    speaker_active,   \* inside "with self.speaker"
    nframes,          \* frames pushed so far
    nflush,           \* Speaker.stop calls so far
    \* ---- registry -------------------------------------------------------
    voice_agents,     \* main.voice_agents: websocket id -> bridge (0: no entry)
    bridge,           \* per submitted job: its owner id and its position
    nstarts,          \* start_voice_agent messages handled
    startBudget,      \* how many start_voice_agent messages this run may handle
    lastStart,        \* what the last handled start_voice_agent found and did
    nstops,           \* stop_voice_agent messages handled
    stopSeen,         \* history: jobs that were outstanding when a stop for their id was handled
    \* --- the client connections and the playback threads of the sessions
    conn,             \* per websocket id: "new", "open" (in manager.active_connections), "closed"
    audio_out,        \* per job: browser_output of its Speaker, frames put on and taken from its queue
    received          \* per websocket id: the audio_output messages sent to that connection

bridgeVars == <<runpc, is_running, shutdown_event, ws, wsClosedBy, registered, rpc,
                rcause, cur, spc, mic_audio_queue, nchunks, nrecv, msgBudget, chunkBudget,
                client_connected, nshutdown, wpc, tasks, session_id, conversation,
                log_file, persisted, ncalls, trace>>
envVars == <<msgBudget, chunkBudget, client_connected>>
logVars == <<session_id, conversation, log_file, persisted>>
speakerVars == <<queue, held, sink, discarded, snapshot, speaker_active, nframes, nflush>>
managerVars == <<conn, audio_out, received>>
\* the state of the server process: the registry, the jobs of the pool and the
\* connection manager
registryVars == <<voice_agents, bridge, nstarts, startBudget, lastStart, nstops, stopSeen,
                  managerVars>>
vars == <<bridgeVars, speakerVars, registryVars>>

\* ------------------------------------------------------------ wire messages
Msg(t, r, c, fs) == [type |-> t, role |-> r, content |-> c, functions |-> fs]
Fn(n, a) == [name |-> n, args |-> a]
\* an event of the trace: channel "up" (sent upstream), "client" (sent to the
\* client), "in" (read from upstream), "ctl" (a step of the bridge itself)
Ev(ch, t, i, x) == [ch |-> ch, type |-> t, id |-> i, info |-> x, role |-> ""]
\* upstream message m read while call c is being handled
EvIn(m, c) == [ch |-> "in", type |-> m.type, id |-> c, info |-> m.content, role |-> m.role]

\* common/agent_functions.py: the names the dispatcher can resolve
FUNCTION_MAP ==
    {"find_customer", "get_appointments", "get_orders", "create_appointment",
     "check_availability", "agent_filler", "end_call", "search_knowledge_base",
     "get_knowledge_base_topics", "get_best_answer", "create_customer_account",
     "reschedule_appointment", "cancel_appointment", "update_appointment_status"}

\* common/business_logic.py prepare_agent_filler_message: the text to inject
FillerText(args) ==
    IF args = "lookup" THEN "Let me look that up for you..." ELSE "One moment please..."

\* common/business_logic.py prepare_farewell_message: the farewell text
FarewellText(args) ==
    IF args = "thanks" THEN "Thank you for calling! Have a great day!"
    ELSE IF args = "help" THEN "I'm glad I could help! Have a wonderful day!"
    ELSE "Goodbye! Have a nice day!"

\* How a handler of FUNCTION_MAP can end for the decoded arguments:
\* agent_filler passes **params to prepare_agent_filler_message, which needs
\* message_type; end_call only reads params.get; a business function runs
\* external code that may return or raise.
HandlerOutcomes(name, args) ==
    IF name = "agent_filler"
    THEN (IF args = "empty" THEN {"raised"} ELSE {"returned"})
    ELSE IF name = "end_call" THEN {"returned"}
    ELSE {"returned", "raised"}

LookupAlwaysFound(name) == TRUE

\* _handle_function_call, lines 342-344: FUNCTION_MAP.get(function_name)
Lookup(name) == name \in FUNCTION_MAP

HandlerNextFillerInjectFirst(name, o) ==
    IF o = "raised" THEN "send_err"
    ELSE IF name = "agent_filler" THEN "filler_inject"
    ELSE IF name = "end_call" THEN "end_resp"
    ELSE "send_resp"

HandlerNextNoErrorPath(name, o) ==
    IF name = "agent_filler" THEN "filler_resp"
    ELSE IF name = "end_call" THEN "end_resp"
    ELSE "send_resp"

\* _handle_function_call, lines 346-382: where the dispatcher goes once the
\* handler has returned or raised
HandlerNext(name, o) ==
    IF o = "raised" THEN "send_err"
    ELSE IF name = "agent_filler" THEN "filler_resp"
    ELSE IF name = "end_call" THEN "end_resp"
    ELSE "send_resp"

\* the request_id of the service's Welcome message
RequestId == "0a1b2c3d-session"

\* start_session, lines 39-41: the log file is named after the first eight
\* characters of the request id (and the date, one day in the model)
LogFileName(request_id) ==
    IF request_id = RequestId THEN "conversation_0a1b2c3d.json" ELSE request_id
LogFiles == {LogFileName(RequestId)}
\* a log file that has not been written
NoFile == [session_id |-> "", conversation |-> <<>>]

\* The upstream messages the model lets the service send.
CallShapes ==
    { <<Fn("find_customer", "empty")>>,
      <<Fn("no_such_function", "empty")>>,
      <<Fn("agent_filler", "lookup")>>,
      <<Fn("agent_filler", "empty")>>,
      <<Fn("end_call", "general")>>,
      <<Fn("find_customer", "empty"), Fn("get_orders", "empty")>>,
      <<>>,
      <<Fn("find_customer", "undecodable")>> }

UpstreamMsgs ==
    { Msg(t, "", "", <<>>) :
        t \in {"bytes", "badjson", "nonobject", "UserStartedSpeaking", "AgentStartedSpeaking",
               "AgentAudioDone", "CloseConnection", "Other"} }
    \cup { Msg("Welcome", "", r, <<>>) : r \in {RequestId, ""} }
    \cup { Msg("ConversationText", r, c, <<>>) :
             r \in {"user", "assistant"}, c \in {"hi", FarewellText("general")} }
    \cup { Msg("FunctionCallRequest", "", "", fs) : fs \in CallShapes }

Ids == 1..NumIds

NoCall == [id |-> 0, name |-> "", args |-> "", outcome |-> ""]

\* ------------------------------------------------------------------- views
UpSent == SelectSeq(trace, LAMBDA e : e.ch = "up")
ClientSent == SelectSeq(trace, LAMBDA e : e.ch = "client")
Count(s, P(_)) == Len(SelectSeq(s, P))
\* index of the first event of the trace that satisfies P, 0 when there is none
RECURSIVE FirstFrom(_, _, _)
FirstFrom(s, P(_), i) ==
    IF i > Len(s) THEN 0 ELSE IF P(s[i]) THEN i ELSE FirstFrom(s, P, i + 1)
First(s, P(_)) == FirstFrom(s, P, 1)
Range(s) == { s[i] : i \in 1..Len(s) }

\* ================================================================ Speaker
\* Speaker.play: queue the frame (janus async_q.put on an unbounded queue)
SpeakerPlay(f) ==
    /\ queue' = Append(queue, f)
    /\ nframes' = nframes + 1

SpeakerStopStepKeeps ==
    /\ queue' = queue
    /\ discarded' = discarded \cup {Head(queue)}

\* One iteration of the loop of Speaker.stop: async_q.get_nowait() removes the
\* head under the queue's mutex. The playback thread may pull between two
\* iterations. FlushMore tells whether the loop goes on.
FlushMore == queue # <<>>
SpeakerStopStep ==
    /\ queue' = Tail(queue)
    /\ discarded' = discarded \cup {Head(queue)}

\* Speaker.stop is entered and makes its first test of async_q.empty() and,
\* on a non-empty queue, its first get_nowait(). The snapshot records which
\* frames were queued at that moment.
SpeakerStopBegin ==
    /\ snapshot' = snapshot \cup Range(queue)
    /\ nflush' = nflush + 1
    /\ IF FlushMore THEN SpeakerStopStep ELSE UNCHANGED <<queue, discarded>>

PlaybackPullNewest ==
    /\ speaker_active
    /\ held = 0
    /\ queue # <<>>
    /\ held' = queue[Len(queue)]
    /\ queue' = SubSeq(queue, 1, Len(queue) - 1)
    /\ UNCHANGED <<sink, discarded, snapshot, speaker_active, nframes, nflush>>
    /\ UNCHANGED <<bridgeVars, registryVars>>

\* _play_audio, first half of an iteration: audio_out.sync_q.get(True, 0.05)
PlaybackPull ==
    /\ speaker_active
    /\ held = 0
    /\ queue # <<>>
    /\ held' = Head(queue)
    /\ queue' = Tail(queue)
    /\ UNCHANGED <<sink, discarded, snapshot, speaker_active, nframes, nflush>>
    /\ UNCHANGED <<bridgeVars, registryVars>>

\* _play_audio, second half: the frame goes to the sink (stream.write, or the
\* audio_output message scheduled for the browser)
PlaybackWrite ==
    /\ held # 0
    /\ sink' = Append(sink, held)
    /\ held' = 0
    /\ UNCHANGED <<queue, discarded, snapshot, speaker_active, nframes, nflush>>
    /\ UNCHANGED <<bridgeVars, registryVars>>

\* Speaker.__exit__: stop is set and the thread joined. The thread finishes the
\* iteration it is in: a frame it holds is written; a thread that had already
\* passed its "while not stop.is_set()" test may pull and write one more frame.
\* Then the queue is dropped.
SpeakerExit ==
    /\ speaker_active' = FALSE
    /\ \E extra \in BOOLEAN :
         sink' = IF held # 0 THEN Append(sink, held)
                 ELSE IF extra /\ queue # <<>> THEN Append(sink, Head(queue))
                 ELSE sink
    /\ held' = 0
    /\ queue' = <<>>
    /\ UNCHANGED <<discarded, snapshot, nframes, nflush>>

\* ---- the Speaker driven directly (SpecAudio): the event loop thread pushes
\* ---- and flushes, the playback thread pulls and writes
AudioPush ==
    /\ rpc = "recv"
    /\ speaker_active
    /\ nframes < MaxFrames
    /\ SpeakerPlay(nframes + 1)
    /\ UNCHANGED <<held, sink, discarded, snapshot, speaker_active, nflush>>
    /\ UNCHANGED <<bridgeVars, registryVars>>

AudioFlushBegin ==
    /\ rpc = "recv"
    /\ speaker_active
    /\ nflush < MaxFlushes
    /\ SpeakerStopBegin
    /\ rpc' = "flush"
    /\ UNCHANGED <<held, sink, speaker_active, nframes>>
    /\ UNCHANGED <<runpc, is_running, shutdown_event, ws, wsClosedBy, registered,
                   rcause, cur, spc, mic_audio_queue, nchunks, nrecv, envVars, nshutdown, wpc, tasks, logVars, ncalls, trace>>
    /\ UNCHANGED registryVars

\* the loop of Speaker.stop, one get_nowait at a time, then the return
FlushStep ==
    /\ rpc = "flush"
    /\ IF FlushMore
       THEN /\ SpeakerStopStep
            /\ rpc' = "flush"
       ELSE /\ rpc' = "recv"
            /\ UNCHANGED <<queue, discarded>>
    /\ UNCHANGED <<held, sink, snapshot, speaker_active, nframes, nflush>>
    /\ UNCHANGED <<runpc, is_running, shutdown_event, ws, wsClosedBy, registered,
                   rcause, cur, spc, mic_audio_queue, nchunks, nrecv, envVars, nshutdown, wpc, tasks, logVars, ncalls, trace>>
    /\ UNCHANGED registryVars

AudioExit ==
    /\ rpc = "recv"
    /\ speaker_active
    /\ SpeakerExit
    /\ rpc' = "done"
    /\ UNCHANGED <<runpc, is_running, shutdown_event, ws, wsClosedBy, registered,
                   rcause, cur, spc, mic_audio_queue, nchunks, nrecv, envVars, nshutdown, wpc, tasks, logVars, ncalls, trace>>
    /\ UNCHANGED registryVars

SpeakerInit ==
    /\ queue = <<>>
    /\ held = 0
    /\ sink = <<>>
    /\ discarded = {}
    /\ snapshot = {}
    /\ nframes = 0
    /\ nflush = 0

BridgeIdle ==
    /\ runpc = "waiting"
    /\ is_running = TRUE
    /\ shutdown_event = FALSE
    /\ ws = "open"
    /\ wsClosedBy = ""
    /\ registered = TRUE
    /\ rpc = "recv"
    /\ rcause = ""
    /\ cur = NoCall
    /\ spc = "get"
    /\ mic_audio_queue = <<>>
    /\ nchunks = 0
    /\ nrecv = 0
    /\ msgBudget = 0
    /\ chunkBudget = 0
    /\ client_connected = TRUE
    /\ nshutdown = 0
    /\ wpc = "waiting"
    /\ tasks = {"sender", "receiver"}
    /\ session_id = ""
    /\ conversation = <<>>
    /\ log_file = ""
    /\ persisted = [f \in LogFiles |-> NoFile]
    /\ ncalls = 0
    /\ trace = <<>>

\* no client connection and no playback thread
ManagerInit ==
    /\ conn = <<>>
    /\ audio_out = <<>>
    /\ received = <<>>

RegistryInit ==
    /\ voice_agents = [i \in Ids |-> 0]
    /\ bridge = <<>>
    /\ nstarts = 0
    /\ startBudget = MaxStarts
    /\ lastStart = [id |-> 0, found |-> 0, job |-> 0]
    /\ nstops = 0
    /\ stopSeen = {}
    /\ ManagerInit

\* Speaker.__enter__ has run: empty queue, playback thread started
InitAudio ==
    /\ SpeakerInit
    /\ speaker_active = TRUE
    /\ BridgeIdle
    /\ RegistryInit

NextAudio ==
    \/ AudioPush
    \/ AudioFlushBegin
    \/ FlushStep
    \/ PlaybackPull
    \/ PlaybackWrite
    \/ AudioExit

SpecAudio == InitAudio /\ [][NextAudio]_vars

\* Speaker.stop is a synchronous loop on the event loop thread: once entered it
\* keeps running until it returns.
SpecAudioFair == InitAudio /\ [][NextAudio]_vars /\ WF_vars(FlushStep)

\* ================================================================= bridge
\* The session event loop runs one task at a time; while the receiver is
\* inside the synchronous Speaker.stop no other task of the loop runs.
LoopFree == rpc # "flush"

\* what ws.send / ws.recv raise on a closed connection
ClosedExc == IF ws = "closed_err" THEN "ConnectionClosedError" ELSE "ConnectionClosedOK"

\* what a step of the receiver task leaves alone; create_task's done callback
\* (line 106) takes a task that has ended out of self.tasks
RecvKeep ==
    /\ UNCHANGED <<runpc, is_running, registered, spc, mic_audio_queue, nchunks, envVars, nshutdown, wpc>>
    /\ tasks' = IF rpc' = "done" THEN tasks \ {"receiver"} ELSE tasks
    /\ UNCHANGED registryVars
LogKeep == UNCHANGED logVars
SpeakerKeep ==
    UNCHANGED <<queue, held, sink, discarded, snapshot, speaker_active, nframes, nflush>>

ReceiverEndsNotifies(cause) ==
    /\ rpc' = "done"
    /\ rcause' = cause
    /\ cur' = NoCall
    /\ trace' = Append(trace, Ev("client", "voice_agent_stopped", 0, "connection_closed"))
    /\ shutdown_event' = TRUE
    /\ SpeakerExit

\* receiver, lines 316-325 with the exit of "with self.speaker": the task ends.
\* A ConnectionClosedError notifies the client and sets the shutdown signal;
\* any other exception is only logged; a break or the end of the iteration
\* ends the task silently.
ReceiverEnds(cause) ==
    /\ rpc' = "done"
    /\ rcause' = cause
    /\ cur' = NoCall
    /\ trace' = IF cause = "ConnectionClosedError"
                THEN Append(trace, Ev("client", "voice_agent_stopped", 0, "connection_closed"))
                ELSE trace
    /\ shutdown_event' = (shutdown_event \/ cause = "ConnectionClosedError")
    /\ SpeakerExit

SetupStartsAnyway ==
    /\ runpc = "setup"
    /\ \E r \in {"ok", "no_key", "connect_failed", "send_failed"} :
         /\ ws' = IF r \in {"ok", "send_failed"} THEN "open" ELSE "none"
         /\ trace' = IF r = "ok" THEN Append(trace, Ev("up", "Settings", 0, "")) ELSE trace
         /\ is_running' = TRUE
         /\ runpc' = "waiting"
         /\ spc' = IF shutdown_event THEN "done" ELSE "get"
         /\ rpc' = "recv"
         /\ speaker_active' = TRUE
         /\ wpc' = "waiting"
         /\ tasks' = IF shutdown_event THEN {"receiver"} ELSE {"sender", "receiver"}
    /\ UNCHANGED <<shutdown_event, wsClosedBy, registered, rcause, cur,
                   mic_audio_queue, nchunks, nrecv, envVars, nshutdown, logVars, ncalls>>
    /\ UNCHANGED <<queue, held, sink, discarded, snapshot, nframes, nflush>>
    /\ UNCHANGED registryVars

\* the failed send leaves the connection as connect returned it
SetupSendFailsOpen ==
    /\ ws' = "open"
    /\ UNCHANGED wsClosedBy

\* setup, lines 160-164: the connection was opened and ws.send of the
\* settings raises. The settings are plain JSON data, so the send raises only
\* ConnectionClosed, which the websockets library raises once the connection
\* is closed (normally or abnormally); setup itself closes nothing.
SetupSendFails ==
    /\ \E how \in {"closed_ok", "closed_err"} : ws' = how
    /\ wsClosedBy' = "peer"

\* VoiceAgent.setup and the start of run (lines 147-165, 437-448)
Setup ==
    /\ runpc = "setup"
    /\ \E r \in {"ok", "no_key", "connect_failed", "send_failed"} :
         IF r = "ok"
         THEN /\ ws' = "open"
              /\ UNCHANGED wsClosedBy
              /\ trace' = Append(trace, Ev("up", "Settings", 0, ""))
              /\ is_running' = TRUE
              /\ runpc' = "waiting"
              /\ spc' = IF shutdown_event THEN "done" ELSE "get"
              /\ rpc' = "recv"
              /\ speaker_active' = TRUE
              /\ wpc' = "waiting"
              /\ tasks' = IF shutdown_event THEN {"receiver"} ELSE {"sender", "receiver"}
         ELSE /\ IF r = "send_failed"
                 THEN SetupSendFails
                 ELSE ws' = "none" /\ UNCHANGED wsClosedBy
              /\ runpc' = "returned"
              /\ UNCHANGED <<trace, is_running, spc, rpc, speaker_active, wpc, tasks>>
    /\ UNCHANGED <<shutdown_event, registered, rcause, cur,
                   mic_audio_queue, nchunks, nrecv, envVars, nshutdown, logVars, ncalls>>
    /\ UNCHANGED <<queue, held, sink, discarded, snapshot, nframes, nflush>>
    /\ UNCHANGED registryVars

\* _handle_function_call, lines 329-335, the statements before the try block:
\* what they raise for the functions list fs, "" when they raise nothing.
\* More than one function raises NotImplementedError (331), an empty list
\* fails at functions[0] (333), arguments that are not JSON fail in json.loads
\* (335).
DecodeError(fs) ==
    IF Len(fs) > 1 THEN "NotImplementedError"
    ELSE IF Len(fs) = 0 THEN "IndexError"
    ELSE IF fs[1].args = "undecodable" THEN "ArgumentsDecodeError"
    ELSE ""

\* how the trace names a request that was not decoded
Undecoded(fs) ==
    IF Len(fs) > 1 THEN "multiple" ELSE IF Len(fs) = 0 THEN "no_function" ELSE "bad_arguments"

\* _handle_function_call, lines 329-358: the request is decoded, the function
\* looked up and its handler awaited. An exception raised before the try
\* block leaves the dispatcher and ends the receiver (lines 324-325).
Dispatch(fs) ==
    /\ ncalls' = ncalls + 1
    /\ IF DecodeError(fs) # ""
       THEN /\ rpc' = "done"
            /\ rcause' = DecodeError(fs)
            /\ cur' = NoCall
            /\ trace' = Append(trace, Ev("in", "FunctionCallRequest", ncalls + 1, Undecoded(fs)))
            /\ SpeakerExit
            /\ UNCHANGED <<shutdown_event, ws, wsClosedBy>>
       ELSE LET f == fs[1]
                id == ncalls + 1
                req == Ev("in", "FunctionCallRequest", id, f.name)
            IN  /\ IF ~Lookup(f.name)
                   THEN /\ cur' = [id |-> id, name |-> f.name, args |-> f.args,
                                   outcome |-> "not_found"]
                        /\ rpc' = "send_err"
                        /\ trace' = Append(trace, req)
                   ELSE \E o \in HandlerOutcomes(f.name, f.args) :
                        /\ cur' = [id |-> id, name |-> f.name, args |-> f.args,
                                   outcome |-> o]
                        /\ rpc' = HandlerNext(f.name, o)
                        /\ trace' = trace \o <<req, Ev("ctl", "handler", id, o)>>
                /\ UNCHANGED <<rcause, shutdown_event, ws, wsClosedBy>>
                /\ SpeakerKeep

\* ConversationLogger._save_to_file: nothing without a log file; otherwise the
\* file is rewritten with the session id and the whole conversation
save_to_file(file, sid, conv) ==
    persisted' = IF file = "" THEN persisted
                 ELSE [persisted EXCEPT ![file] = [session_id |-> sid, conversation |-> conv]]

start_sessionKeepsOld(request_id) ==
    /\ UNCHANGED <<session_id, log_file, conversation>>
    /\ save_to_file(log_file, session_id, conversation)

add_messageAlways(role, content) ==
    /\ conversation' = Append(conversation, [role |-> role, content |-> content])
    /\ UNCHANGED <<session_id, log_file>>
    /\ save_to_file(log_file, session_id, conversation')

add_messageNoSave(role, content) ==
    IF session_id = ""
    THEN UNCHANGED logVars
    ELSE /\ conversation' = Append(conversation, [role |-> role, content |-> content])
         /\ UNCHANGED <<session_id, log_file, persisted>>

\* ConversationLogger.start_session: a new session with an empty conversation,
\* written to its log file at once
start_session(request_id) ==
    /\ session_id' = request_id
    /\ log_file' = LogFileName(request_id)
    /\ conversation' = <<>>
    /\ save_to_file(LogFileName(request_id), request_id, <<>>)

\* ConversationLogger.add_message: ignored while no session is active;
\* otherwise the entry is appended and the file rewritten
add_message(role, content) ==
    IF session_id = ""
    THEN UNCHANGED logVars
    ELSE /\ conversation' = Append(conversation, [role |-> role, content |-> content])
         /\ UNCHANGED <<session_id, log_file>>
         /\ save_to_file(log_file, session_id, conversation')

\* ConversationLogger.end_session: a final save if a session is active, then
\* the state is reset
end_session ==
    /\ IF session_id # ""
       THEN save_to_file(log_file, session_id, conversation)
       ELSE UNCHANGED persisted
    /\ session_id' = ""
    /\ conversation' = <<>>
    /\ log_file' = ""

\* receiver, lines 246-314: one upstream message is read and processed
Process(m) ==
    CASE m.type = "bytes" ->
            /\ SpeakerPlay(nframes + 1)
            /\ UNCHANGED <<rpc, rcause, cur, ncalls, trace, ws, wsClosedBy, shutdown_event>>
            /\ UNCHANGED <<held, sink, discarded, snapshot, speaker_active, nflush>>
            /\ LogKeep
      [] m.type = "badjson" ->
            /\ ReceiverEnds("JSONDecodeError")
            /\ UNCHANGED <<ncalls, ws, wsClosedBy>>
            /\ LogKeep
      [] m.type = "nonobject" ->
            \* line 252: message_json.get on a JSON value that is not an object
            /\ ReceiverEnds("AttributeError")
            /\ UNCHANGED <<ncalls, ws, wsClosedBy>>
            /\ LogKeep
      [] m.type = "UserStartedSpeaking" ->
            /\ SpeakerStopBegin
            /\ rpc' = "flush"
            /\ trace' = Append(trace, EvIn(m, 0))
            /\ UNCHANGED <<rcause, cur, ncalls, ws, wsClosedBy, shutdown_event>>
            /\ UNCHANGED <<held, sink, speaker_active, nframes>>
            /\ LogKeep
      [] m.type = "ConversationText" ->
            /\ trace' = trace \o <<EvIn(m, 0),
                                   Ev("client", "conversation_update", 0, m.content)>>
            /\ add_message(m.role, m.content)
            /\ UNCHANGED <<rpc, rcause, cur, ncalls, ws, wsClosedBy, shutdown_event>>
            /\ SpeakerKeep
      [] m.type = "FunctionCallRequest" ->
            /\ Dispatch(m.functions)
            /\ LogKeep
      [] m.type = "Welcome" ->
            \* line 303 slices request_id before line 305 tests it
            IF m.content = ""
            THEN /\ ReceiverEnds("TypeError")
                 /\ UNCHANGED <<ncalls, ws, wsClosedBy>>
                 /\ LogKeep
            ELSE /\ start_session(m.content)
                 /\ trace' = Append(trace, Ev("ctl", "start_session", 0, m.content))
                 /\ UNCHANGED <<rpc, rcause, cur, ncalls, ws, wsClosedBy, shutdown_event>>
                 /\ SpeakerKeep
      [] m.type = "CloseConnection" ->
            /\ ws' = "closed_ok"
            /\ wsClosedBy' = "close_connection"
            /\ ReceiverEnds("normal")
            /\ UNCHANGED ncalls
            /\ LogKeep
      [] OTHER ->
            /\ UNCHANGED <<rpc, rcause, cur, ncalls, trace, ws, wsClosedBy, shutdown_event>>
            /\ SpeakerKeep
            /\ LogKeep

\* the message bounds of the model
Allowed(m) ==
    /\ nrecv < msgBudget
    /\ m.type = "FunctionCallRequest" => ncalls < MaxCalls
    /\ m.type = "bytes" => nframes < MaxFrames
    /\ m.type = "UserStartedSpeaking" => nflush < MaxFlushes

ReceiverRecv ==
    /\ rpc = "recv"
    /\ runpc = "waiting"
    /\ ws = "open"
    /\ \E m \in UpstreamMsgs :
         /\ Allowed(m)
         /\ nrecv' = nrecv + 1
         /\ IF shutdown_event
            THEN /\ ReceiverEnds("shutdown_seen")
                 /\ UNCHANGED <<ncalls, ws, wsClosedBy>>
                 /\ LogKeep
            ELSE Process(m)
    /\ RecvKeep

\* receiver, line 246 on a closed connection: the iteration ends silently after
\* a normal close and raises ConnectionClosedError after an abnormal one
ReceiverSeesClose ==
    /\ rpc = "recv"
    /\ runpc = "waiting"
    /\ ws \in {"closed_ok", "closed_err"}
    /\ ReceiverEnds(IF ws = "closed_err" THEN "ConnectionClosedError" ELSE "normal")
    /\ UNCHANGED <<ncalls, nrecv, ws, wsClosedBy>>
    /\ LogKeep
    /\ RecvKeep

\* ------------------------------------------------------------- dispatcher
\* what a step of the dispatcher leaves alone
DispatcherFrame ==
    /\ runpc = "waiting"
    /\ UNCHANGED ncalls
    /\ LogKeep
    /\ RecvKeep
NoIO == UNCHANGED <<ws, wsClosedBy, nrecv>>

Response(c, shape) == Ev("up", "FunctionCallResponse", c.id, shape)

\* The dispatcher is back in the receiver loop (line 299).
DispatcherReturns ==
    /\ rpc' = "recv"
    /\ cur' = NoCall

\* An awaited ws.send inside the try block of _handle_function_call: on an open
\* connection the message goes out and the dispatcher moves on; on a closed one
\* the send raises and the except block (line 373) takes over.
TrySend(e, next) ==
    IF ws = "open"
    THEN /\ trace' = Append(trace, e)
         /\ IF next = "recv" THEN DispatcherReturns ELSE rpc' = next /\ cur' = cur
    ELSE /\ trace' = trace
         /\ rpc' = "send_err"
         /\ cur' = cur

\* lines 364-370: the result of a business function is sent
SendResponse ==
    /\ rpc = "send_resp"
    /\ TrySend(Response(cur, "result"), "recv")
    /\ UNCHANGED <<rcause, shutdown_event>>
    /\ SpeakerKeep
    /\ NoIO
    /\ DispatcherFrame

\* lines 373-382: the except block sends the error-shaped response; a send that
\* raises here leaves the dispatcher and ends the receiver
SendError ==
    /\ rpc = "send_err"
    /\ IF ws = "open"
       THEN /\ trace' = Append(trace, Response(cur, "error"))
            /\ DispatcherReturns
            /\ UNCHANGED <<rcause, shutdown_event>>
            /\ SpeakerKeep
       ELSE /\ ReceiverEnds(ClosedExc)
    /\ NoIO
    /\ DispatcherFrame

\* _handle_agent_filler, lines 390-396: the function response goes first
FillerResponse ==
    /\ rpc = "filler_resp"
    /\ TrySend(Response(cur, "result"), "filler_inject")
    /\ UNCHANGED <<rcause, shutdown_event>>
    /\ SpeakerKeep
    /\ NoIO
    /\ DispatcherFrame

\* _handle_agent_filler, line 400: then the filler text is injected
FillerInject ==
    /\ rpc = "filler_inject"
    /\ TrySend(Ev("up", "InjectAgentMessage", cur.id, FillerText(cur.args)), "recv")
    /\ UNCHANGED <<rcause, shutdown_event>>
    /\ SpeakerKeep
    /\ NoIO
    /\ DispatcherFrame

\* _handle_end_call, lines 408-414
EndCallResponse ==
    /\ rpc = "end_resp"
    /\ TrySend(Response(cur, "result"), "end_inject")
    /\ UNCHANGED <<rcause, shutdown_event>>
    /\ SpeakerKeep
    /\ NoIO
    /\ DispatcherFrame

\* wait_for_farewell_completion, line 505
EndCallInject ==
    /\ rpc = "end_inject"
    /\ TrySend(Ev("up", "InjectAgentMessage", cur.id, FarewellText(cur.args)), "fw_start")
    /\ UNCHANGED <<rcause, shutdown_event>>
    /\ SpeakerKeep
    /\ NoIO
    /\ DispatcherFrame

\* wait_for_farewell_completion, lines 518-522: the speaking-start evidence
IsSpeakingStart(m, text) ==
    \/ m.type = "AgentStartedSpeaking"
    \/ /\ m.type = "ConversationText"
       /\ m.role = "assistant"
       /\ m.content = text

\* the messages read during the wait that the trace records
FarewellLogged ==
    {"AgentStartedSpeaking", "AgentAudioDone", "ConversationText", "UserStartedSpeaking"}

FarewellStepSingleLoop(m) ==
    IF m.type = "bytes"
    THEN /\ SpeakerPlay(nframes + 1)
         /\ UNCHANGED <<rpc, trace>>
         /\ UNCHANGED <<held, sink, discarded, snapshot, speaker_active, nflush>>
    ELSE /\ SpeakerKeep
         /\ trace' = IF m.type \in FarewellLogged
                     THEN Append(trace, EvIn(m, cur.id)) ELSE trace
         /\ rpc' = IF m.type = "AgentAudioDone" THEN "settle" ELSE rpc

\* wait_for_farewell_completion, lines 509-541: one ws.recv of either loop.
\* Binary messages are played, undecodable ones skipped, every other message
\* that is not the awaited one is dropped. A JSON value that is not an object
\* is decoded, and message_json.get (lines 518, 537) then raises
\* AttributeError, which only the except block of _handle_function_call
\* (line 373) catches.
FarewellStep(m) ==
    IF m.type = "bytes"
    THEN /\ SpeakerPlay(nframes + 1)
         /\ UNCHANGED <<rpc, trace>>
         /\ UNCHANGED <<held, sink, discarded, snapshot, speaker_active, nflush>>
    ELSE IF m.type = "nonobject"
    THEN /\ SpeakerKeep
         /\ trace' = Append(trace, Ev("ctl", "farewell_error", cur.id, "AttributeError"))
         /\ rpc' = "send_err"
    ELSE /\ SpeakerKeep
         /\ trace' = IF m.type \in FarewellLogged
                     THEN Append(trace, EvIn(m, cur.id)) ELSE trace
         /\ rpc' = IF rpc = "fw_start" /\ IsSpeakingStart(m, FarewellText(cur.args))
                   THEN "fw_done"
                   ELSE IF rpc = "fw_done" /\ m.type = "AgentAudioDone"
                   THEN "settle"
                   ELSE rpc

FarewellRecv ==
    /\ rpc \in {"fw_start", "fw_done"}
    /\ IF ws = "open"
       THEN /\ \E m \in UpstreamMsgs :
                 /\ Allowed(m)
                 /\ FarewellStep(m)
            /\ nrecv' = nrecv + 1
            /\ UNCHANGED cur
       ELSE \* ws.recv raises ConnectionClosed: caught by the except block
            /\ rpc' = "send_err"
            /\ UNCHANGED <<trace, nrecv, cur>>
            /\ SpeakerKeep
    /\ UNCHANGED <<rcause, shutdown_event, ws, wsClosedBy>>
    /\ DispatcherFrame

\* wait_for_farewell_completion, line 544: the settle delay has elapsed
Settle ==
    /\ rpc = "settle"
    /\ rpc' = "end_notify"
    /\ trace' = Append(trace, Ev("ctl", "settle", cur.id, ""))
    /\ UNCHANGED <<rcause, shutdown_event, cur>>
    /\ SpeakerKeep
    /\ NoIO
    /\ DispatcherFrame

EndCallNotifySkipped ==
    /\ rpc = "end_notify"
    /\ rpc' = "end_close"
    /\ trace' = trace
    /\ UNCHANGED <<rcause, shutdown_event, cur>>
    /\ SpeakerKeep
    /\ NoIO
    /\ DispatcherFrame

\* _handle_end_call, lines 420-426: the client is told the agent stopped
EndCallNotify ==
    /\ rpc = "end_notify"
    /\ rpc' = "end_close"
    /\ trace' = Append(trace, Ev("client", "voice_agent_stopped", 0, "end_call"))
    /\ UNCHANGED <<rcause, shutdown_event, cur>>
    /\ SpeakerKeep
    /\ NoIO
    /\ DispatcherFrame

CloseUpstreamNever(who) == UNCHANGED <<ws, wsClosedBy>>

\* close_websocket_with_timeout, line 488: ws.close() on an open connection
\* sends the close frame and waits, inside wait_for, for the peer's; on a
\* connection already closed it returns at once.
CloseUpstream(who) ==
    IF ws = "open"
    THEN /\ ws' = "closing"
         /\ wsClosedBy' = who
    ELSE UNCHANGED <<ws, wsClosedBy>>

\* _handle_end_call, lines 428-430: the close of the upstream connection begins;
\* line 433 follows at once if it was closed already
EndCallClose ==
    /\ rpc = "end_close"
    /\ CloseUpstream("end_call")
    /\ IF ws = "open"
       THEN /\ trace' = Append(trace, Ev("ctl", "ws_close", cur.id, "end_call"))
            /\ rpc' = "end_closing"
            /\ UNCHANGED <<cur, shutdown_event>>
       ELSE /\ trace' = trace \o <<Ev("ctl", "ws_close", cur.id, "end_call"),
                                   Ev("ctl", "shutdown_set", cur.id, "end_call")>>
            /\ shutdown_event' = TRUE
            /\ DispatcherReturns
    /\ UNCHANGED <<rcause, nrecv>>
    /\ SpeakerKeep
    /\ DispatcherFrame

\* close_websocket_with_timeout inside _handle_end_call returns with the
\* connection closed as "how" says; line 433 raises the shutdown signal and the
\* dispatcher returns to the receiver loop
EndCallCloseDone(how) ==
    /\ rpc = "end_closing"
    /\ ws = "closing"
    /\ ws' = how
    /\ trace' = Append(trace, Ev("ctl", "shutdown_set", cur.id, "end_call"))
    /\ shutdown_event' = TRUE
    /\ DispatcherReturns
    /\ UNCHANGED <<rcause, nrecv, wsClosedBy>>
    /\ SpeakerKeep
    /\ DispatcherFrame

\* line 488: the peer's close frame arrives within the timeout
EndCallCloseHandshake ==
    /\ rpc = "end_closing"
    /\ EndCallCloseDone("closed_ok")

\* lines 489-494: the timeout of wait_for expires; close_connection drops the
\* transport and whatever it raises is swallowed
EndCallCloseTimeout ==
    /\ rpc = "end_closing"
    /\ EndCallCloseDone("closed_err")

\* ----------------------------------------------------------------- sender
SenderStepNewest ==
    /\ spc = "get"
    /\ runpc = "waiting"
    /\ LoopFree
    /\ mic_audio_queue # <<>>
    /\ mic_audio_queue' = SubSeq(mic_audio_queue, 1, Len(mic_audio_queue) - 1)
    /\ IF ws = "open"
       THEN /\ trace' = Append(trace, Ev("up", "audio", mic_audio_queue[Len(mic_audio_queue)], ""))
            /\ spc' = IF is_running /\ ~shutdown_event THEN "get" ELSE "done"
       ELSE /\ trace' = trace
            /\ spc' = "done"
    /\ tasks' = IF spc' = "done" THEN tasks \ {"sender"} ELSE tasks
    /\ UNCHANGED <<runpc, is_running, shutdown_event, ws, wsClosedBy, registered, rpc,
                   rcause, cur, nchunks, nrecv, envVars, nshutdown, wpc, logVars, ncalls>>
    /\ SpeakerKeep
    /\ UNCHANGED registryVars

\* sender, lines 207-223: a chunk is taken from mic_audio_queue and sent; the
\* loop condition is tested again right after. A send on a closed connection
\* raises and ends the task.
SenderStep ==
    /\ spc = "get"
    /\ runpc = "waiting"
    /\ LoopFree
    /\ mic_audio_queue # <<>>
    /\ mic_audio_queue' = Tail(mic_audio_queue)
    /\ IF ws = "open"
       THEN /\ trace' = Append(trace, Ev("up", "audio", Head(mic_audio_queue), ""))
            /\ spc' = IF is_running /\ ~shutdown_event THEN "get" ELSE "done"
       ELSE /\ trace' = trace
            /\ spc' = "done"
    /\ tasks' = IF spc' = "done" THEN tasks \ {"sender"} ELSE tasks
    /\ UNCHANGED <<runpc, is_running, shutdown_event, ws, wsClosedBy, registered, rpc,
                   rcause, cur, nchunks, nrecv, envVars, nshutdown, wpc, logVars, ncalls>>
    /\ SpeakerKeep
    /\ UNCHANGED registryVars

\* ------------------------------------------------------------ coordinator
\* the tasks of the bridge that are not done
Pending(pc) == pc \notin {"idle", "done", "cancelled"}

shutdownLeavesTasks ==
    /\ nshutdown' = IF ws \in {"open", "closing"} THEN nshutdown ELSE nshutdown + 1
    /\ is_running' = FALSE
    /\ shutdown_event' = TRUE
    /\ end_session
    /\ UNCHANGED <<spc, rpc, rcause, cur, tasks>>
    /\ SpeakerKeep
    /\ CloseUpstream("shutdown")

shutdownKeepsSession ==
    /\ nshutdown' = IF ws \in {"open", "closing"} THEN nshutdown ELSE nshutdown + 1
    /\ is_running' = FALSE
    /\ shutdown_event' = TRUE
    /\ UNCHANGED logVars
    /\ spc' = IF Pending(spc) THEN "cancelled" ELSE spc
    /\ IF Pending(rpc)
       THEN /\ rpc' = "cancelled"
            /\ rcause' = "CancelledError"
            /\ cur' = NoCall
            /\ SpeakerExit
       ELSE /\ UNCHANGED <<rpc, rcause, cur>>
            /\ SpeakerKeep
    /\ tasks' = {}
    /\ CloseUpstream("shutdown")

\* VoiceAgent.shutdown, lines 125-145, with cancel_all_tasks (109-123) and the
\* cancellation of the pending tasks in run (457-459): flags, end of the
\* logging session, every task not yet done is cancelled and awaited, the
\* close of the upstream connection begins if it is not closed yet. The call
\* has returned, and is counted, when the connection is closed.
shutdown ==
    /\ nshutdown' = IF ws \in {"open", "closing"} THEN nshutdown ELSE nshutdown + 1
    /\ is_running' = FALSE
    /\ shutdown_event' = TRUE
    /\ end_session
    /\ spc' = IF Pending(spc) THEN "cancelled" ELSE spc
    /\ IF Pending(rpc)
       THEN /\ rpc' = "cancelled"
            /\ rcause' = "CancelledError"
            /\ cur' = NoCall
            /\ SpeakerExit
       ELSE /\ UNCHANGED <<rpc, rcause, cur>>
            /\ SpeakerKeep
    /\ tasks' = {}
    /\ CloseUpstream("shutdown")

\* run, lines 450-474, with shutdown (125-145) and cancel_all_tasks: the wait
\* returns when the sender, the receiver or the shutdown-wait task is done;
\* the tasks still pending are cancelled, the flags set, upstream closed.
RunFinish ==
    /\ runpc = "waiting"
    /\ LoopFree
    /\ spc = "done" \/ rpc = "done" \/ shutdown_event
    /\ runpc' = IF ws \in {"open", "closing"} THEN "closing" ELSE "finished"
    /\ wpc' = IF shutdown_event THEN "done" ELSE "cancelled"
    /\ shutdown
    /\ UNCHANGED <<registered, mic_audio_queue, nchunks, nrecv, envVars, ncalls, trace>>
    /\ UNCHANGED registryVars

ShutdownCloseTimeoutNever ==
    /\ runpc = "closing"
    /\ FALSE
    /\ UNCHANGED vars

\* shutdown, lines 138-145: close_websocket_with_timeout returns with the
\* connection closed as "how" says, and shutdown returns
ShutdownCloseDone(how) ==
    /\ runpc = "closing"
    /\ ws = "closing"
    /\ ws' = how
    /\ runpc' = "finished"
    /\ nshutdown' = nshutdown + 1
    /\ UNCHANGED <<is_running, shutdown_event, wsClosedBy, registered, rpc, rcause, cur, spc,
                   mic_audio_queue, nchunks, nrecv, envVars, wpc, tasks, logVars, ncalls, trace>>
    /\ SpeakerKeep
    /\ UNCHANGED registryVars

\* close_websocket_with_timeout, line 488: the peer's close frame arrives in time
ShutdownCloseHandshake ==
    /\ runpc = "closing"
    /\ ShutdownCloseDone("closed_ok")

\* close_websocket_with_timeout, lines 489-494: the three seconds of wait_for
\* expire; close_connection drops the transport, its errors are swallowed
ShutdownCloseTimeout ==
    /\ runpc = "closing"
    /\ ShutdownCloseDone("closed_err")

\* VoiceAgent.shutdown invoked once more on a bridge whose run has finished
ShutdownAgain ==
    /\ runpc = "finished"
    /\ nshutdown = 1
    /\ shutdown
    /\ UNCHANGED <<runpc, wpc>>
    /\ UNCHANGED <<registered, mic_audio_queue, nchunks, nrecv, envVars, ncalls, trace>>
    /\ UNCHANGED registryVars

\* run_voice_agent_in_thread, lines 193-197: the worker removes the entry
WorkerFinally ==
    /\ runpc \in {"finished", "returned"}
    /\ registered
    /\ registered' = FALSE
    /\ UNCHANGED <<runpc, is_running, shutdown_event, ws, wsClosedBy, rpc,
                   rcause, cur, spc, mic_audio_queue, nchunks, nrecv, envVars, nshutdown, wpc, tasks, logVars, ncalls, trace>>
    /\ SpeakerKeep
    /\ UNCHANGED registryVars

\* ------------------------------------------------- client message handler
\* websocket_endpoint, lines 251-258: stop_voice_agent
StopVoiceAgent ==
    /\ client_connected
    /\ registered
    /\ is_running' = FALSE
    /\ shutdown_event' = TRUE
    /\ UNCHANGED <<runpc, ws, wsClosedBy, registered, rpc,
                   rcause, cur, spc, mic_audio_queue, nchunks, nrecv, envVars, nshutdown, wpc, tasks, logVars, ncalls, trace>>
    /\ SpeakerKeep
    /\ UNCHANGED registryVars

\* websocket_endpoint, lines 260-307: audio_data of a running browser session
ClientAudio ==
    /\ client_connected
    /\ registered
    /\ is_running
    /\ nchunks < chunkBudget
    /\ nchunks' = nchunks + 1
    /\ mic_audio_queue' = Append(mic_audio_queue, nchunks + 1)
    /\ UNCHANGED <<runpc, is_running, shutdown_event, ws, wsClosedBy, registered, rpc,
                   rcause, cur, spc, nrecv, envVars, nshutdown, wpc, tasks, logVars, ncalls, trace>>
    /\ SpeakerKeep
    /\ UNCHANGED registryVars

\* websocket_endpoint, lines 317-326 with ConnectionManager.disconnect: the
\* client-facing connection drops; receive_text raises, the connection is taken
\* out of manager.active_connections and the handler returns
ClientDisconnect ==
    /\ client_connected
    /\ client_connected' = FALSE
    /\ UNCHANGED <<runpc, is_running, shutdown_event, ws, wsClosedBy, registered, rpc,
                   rcause, cur, spc, mic_audio_queue, nchunks, nrecv, msgBudget, chunkBudget,
                   nshutdown, wpc, tasks, logVars, ncalls, trace>>
    /\ SpeakerKeep
    /\ UNCHANGED registryVars

\* ---------------------------------------------------------- upstream peer
\* the service closes or loses the connection
UpstreamDisconnect ==
    /\ ws = "open"
    /\ runpc = "waiting"
    /\ \E how \in {"closed_ok", "closed_err"} : ws' = how
    /\ wsClosedBy' = "peer"
    /\ UNCHANGED <<runpc, is_running, shutdown_event, registered, rpc,
                   rcause, cur, spc, mic_audio_queue, nchunks, nrecv, envVars, nshutdown, wpc, tasks, logVars, ncalls, trace>>
    /\ SpeakerKeep
    /\ UNCHANGED registryVars

\* The bridge has been constructed and stored in the registry (main.py line
\* 185); run has not started.
BridgeInit ==
    /\ runpc = "setup"
    /\ is_running = FALSE
    /\ shutdown_event = FALSE
    /\ ws = "none"
    /\ wsClosedBy = ""
    /\ registered = TRUE
    /\ rpc = "idle"
    /\ rcause = ""
    /\ cur = NoCall
    /\ spc = "idle"
    /\ mic_audio_queue = <<>>
    /\ nchunks = 0
    /\ nrecv = 0
    /\ ncalls = 0
    /\ trace = <<>>
    /\ client_connected = TRUE
    /\ nshutdown = 0
    /\ wpc = "idle"
    /\ tasks = {}
    /\ session_id = ""
    /\ conversation = <<>>
    /\ log_file = ""
    /\ persisted = [f \in LogFiles |-> NoFile]
    /\ SpeakerInit
    /\ speaker_active = FALSE

Init ==
    /\ BridgeInit
    /\ msgBudget = MaxMsgs
    /\ chunkBudget = MaxChunks
    /\ RegistryInit

Next ==
    \/ Setup
    \/ ReceiverRecv
    \/ ReceiverSeesClose
    \/ FlushStep
    \/ SendResponse
    \/ SendError
    \/ FillerResponse
    \/ FillerInject
    \/ EndCallResponse
    \/ EndCallInject
    \/ FarewellRecv
    \/ Settle
    \/ EndCallNotify
    \/ EndCallClose
    \/ EndCallCloseHandshake
    \/ EndCallCloseTimeout
    \/ RunFinish
    \/ ShutdownCloseHandshake
    \/ ShutdownCloseTimeout
    \/ WorkerFinally
    \/ StopVoiceAgent
    \/ UpstreamDisconnect
    \/ PlaybackPull
    \/ PlaybackWrite

Spec == Init /\ [][Next]_vars

\* the same bridge with the outbound loop fed by the client
InitDuplex ==
    /\ BridgeInit
    /\ msgBudget = MaxDuplexMsgs
    /\ chunkBudget = MaxChunks
    /\ RegistryInit

NextDuplex ==
    \/ Next
    \/ ClientAudio
    \/ SenderStep

SpecDuplex == InitDuplex /\ [][NextDuplex]_vars

\* the bridge followed up to a second invocation of shutdown
NextShutdown ==
    \/ Next
    \/ ShutdownAgain

SpecShutdown == InitDuplex /\ [][NextShutdown]_vars

\* the session of one client with a silent upstream service: the client sends
\* audio, may stop the agent or drop its connection; the service may disconnect
InitSession ==
    /\ BridgeInit
    /\ msgBudget = 0
    /\ chunkBudget = MaxSessionChunks
    /\ RegistryInit

NextSession ==
    \/ Setup
    \/ ClientAudio
    \/ SenderStep
    \/ StopVoiceAgent
    \/ ClientDisconnect
    \/ UpstreamDisconnect
    \/ ReceiverSeesClose
    \/ RunFinish
    \/ ShutdownCloseHandshake
    \/ ShutdownCloseTimeout
    \/ WorkerFinally

SpecSession == InitSession /\ [][NextSession]_vars

\* The steps the bridge takes by itself: tasks of the session loop that are
\* ready to run are run, timers expire, the worker thread goes on. Reading a
\* message needs the service to send one and is not among them; a ws.recv on a
\* connection that is closed returns without the service.
BridgeFairness ==
    /\ WF_vars(Setup)
    /\ WF_vars(ReceiverSeesClose)
    /\ WF_vars(FlushStep)
    /\ WF_vars(SendResponse)
    /\ WF_vars(SendError)
    /\ WF_vars(FillerResponse)
    /\ WF_vars(FillerInject)
    /\ WF_vars(EndCallResponse)
    /\ WF_vars(EndCallInject)
    /\ WF_vars(ws # "open" /\ FarewellRecv)
    /\ WF_vars(Settle)
    /\ WF_vars(EndCallNotify)
    /\ WF_vars(EndCallClose)
    /\ WF_vars(EndCallCloseTimeout)
    /\ WF_vars(RunFinish)
    /\ WF_vars(ShutdownCloseTimeout)
    /\ WF_vars(WorkerFinally)

SpecFair == InitDuplex /\ [][Next]_vars /\ BridgeFairness

\* The steps of the bridge and of the worker thread are taken when they can
\* be; nothing obliges the client or the service to act.
SpecSessionFair ==
    /\ InitSession
    /\ [][NextSession]_vars
    /\ WF_vars(Setup)
    /\ WF_vars(SenderStep)
    /\ WF_vars(ReceiverSeesClose)
    /\ WF_vars(RunFinish)
    /\ WF_vars(ShutdownCloseTimeout)
    /\ WF_vars(WorkerFinally)

\* =============================================================== registry
\* websocket_endpoint, lines 233-249: start_voice_agent for websocket id i.
\* The test "websocket_id not in voice_agents" and the submit are one step of
\* the server's event loop; the entry itself is written later by the worker.
StartVoiceAgentNoCheck(i) ==
    /\ nstarts < startBudget
    /\ nstarts' = nstarts + 1
    /\ bridge' = Append(bridge, [owner |-> i, pc |-> "queued", stop |-> FALSE, del |-> FALSE])
    /\ lastStart' = [id |-> i, found |-> voice_agents[i], job |-> Len(bridge) + 1]
    /\ UNCHANGED <<voice_agents, startBudget, nstops, stopSeen, managerVars>>
    /\ UNCHANGED <<bridgeVars, speakerVars>>

StartVoiceAgent(i) ==
    /\ nstarts < startBudget
    /\ nstarts' = nstarts + 1
    /\ IF voice_agents[i] = 0
       THEN /\ bridge' = Append(bridge, [owner |-> i, pc |-> "queued", stop |-> FALSE, del |-> FALSE])
            /\ lastStart' = [id |-> i, found |-> 0, job |-> Len(bridge) + 1]
       ELSE /\ bridge' = bridge
            /\ lastStart' = [id |-> i, found |-> voice_agents[i], job |-> 0]
    /\ UNCHANGED <<voice_agents, startBudget, nstops, stopSeen, managerVars>>
    /\ UNCHANGED <<bridgeVars, speakerVars>>

\* main.py line 102: ThreadPoolExecutor(max_workers=10)
max_workers == 10

\* the jobs that hold a worker thread of the pool: a worker runs one job from
\* its first line to the end of its finally
Busy == { b \in 1..Len(bridge) : bridge[b].pc \in {"running", "finished"} }
\* the jobs submitted before job b that no worker has taken yet
QueuedBefore(b) == { a \in 1..(b - 1) : bridge[a].pc = "queued" }

\* run_voice_agent_in_thread, lines 169-185: a worker thread of the pool takes
\* the job, builds the VoiceAgent and stores it under the websocket id. The
\* pool hands out jobs in the order of their submission and only to idle
\* workers, so job b is taken when the busy workers and the older queued jobs
\* together leave a worker for it.
ThreadInsert(b) ==
    /\ bridge[b].pc = "queued"
    /\ Cardinality(Busy) + Cardinality(QueuedBefore(b)) < max_workers
    /\ voice_agents' = [voice_agents EXCEPT ![bridge[b].owner] = b]
    /\ bridge' = [bridge EXCEPT ![b].pc = "running"]
    /\ UNCHANGED <<nstarts, startBudget, lastStart, nstops, stopSeen, managerVars>>
    /\ UNCHANGED <<bridgeVars, speakerVars>>

\* run_voice_agent_in_thread, line 189: run() of the bridge returns (failed
\* setup, stop request, upstream close, end of call, error)
ThreadRunReturns(b) ==
    /\ bridge[b].pc = "running"
    /\ bridge' = [bridge EXCEPT ![b].pc = "finished"]
    /\ UNCHANGED <<voice_agents, nstarts, startBudget, lastStart, nstops, stopSeen, managerVars>>
    /\ UNCHANGED <<bridgeVars, speakerVars>>

\* Python's "del d[k]" on the registry reg (0 stands for "no entry"): the entry
\* is removed, and KeyError is raised when there is none
Del(reg, i) ==
    IF reg[i] = 0
    THEN [reg |-> reg, raised |-> TRUE, del |-> TRUE]
    ELSE [reg |-> [reg EXCEPT ![i] = 0], raised |-> FALSE, del |-> TRUE]

\* the removal without its membership test
reset_voice_agentNoTest(reg, i) == Del(reg, i)

\* reset_voice_agent, lines 151-156, and the same two statements in the
\* worker's finally (195-196): "if websocket_id in voice_agents: del
\* voice_agents[websocket_id]"
reset_voice_agent(reg, i) ==
    IF reg[i] # 0 THEN Del(reg, i) ELSE [reg |-> reg, raised |-> FALSE, del |-> FALSE]

\* run_voice_agent_in_thread, lines 193-197: the entry of the websocket id is
\* removed if there is one, whichever bridge the entry holds. The field del
\* records whether the del statement of line 196 was executed.
ThreadFinally(b) ==
    /\ bridge[b].pc = "finished"
    /\ LET r == reset_voice_agent(voice_agents, bridge[b].owner)
       IN /\ voice_agents' = r.reg
          /\ bridge' = [bridge EXCEPT ![b].pc = IF r.raised THEN "raised" ELSE "gone",
                                      ![b].del = r.del]
    /\ UNCHANGED <<nstarts, startBudget, lastStart, nstops, stopSeen, managerVars>>
    /\ UNCHANGED <<bridgeVars, speakerVars>>

\* the jobs submitted for websocket id i whose worker has not finished
Outstanding(i) == { b \in 1..Len(bridge) : bridge[b].owner = i /\ bridge[b].pc # "gone" }

\* websocket_endpoint, lines 251-258: stop_voice_agent for websocket id i. The
\* request reaches the bridge the registry holds for the id; with no entry
\* the message is dropped.
StopRequest(i) ==
    /\ nstops < MaxStops
    /\ nstops' = nstops + 1
    /\ bridge' = IF voice_agents[i] # 0
                 THEN [bridge EXCEPT ![voice_agents[i]].stop = TRUE]
                 ELSE bridge
    /\ stopSeen' = stopSeen \cup Outstanding(i)
    /\ UNCHANGED <<voice_agents, nstarts, startBudget, lastStart, managerVars>>
    /\ UNCHANGED <<bridgeVars, speakerVars>>

\* run() of a bridge whose shutdown signal a stop request has set returns
ThreadStopped(b) ==
    /\ bridge[b].stop
    /\ ThreadRunReturns(b)

InitRegistry ==
    /\ RegistryInit
    /\ BridgeInit
    /\ msgBudget = 0
    /\ chunkBudget = 0

NextRegistry ==
    \/ \E i \in Ids : StartVoiceAgent(i)
    \/ \E b \in 1..Len(bridge) : ThreadInsert(b)
    \/ \E b \in 1..Len(bridge) : ThreadRunReturns(b)
    \/ \E b \in 1..Len(bridge) : ThreadFinally(b)
    \/ \E i \in Ids : StopRequest(i)

SpecRegistry == InitRegistry /\ [][NextRegistry]_vars

\* The pool (10 workers) runs every submitted job, a bridge that was told to
\* stop returns from run, and the worker's finally follows.
SpecRegistryFair ==
    /\ InitRegistry
    /\ [][NextRegistry]_vars
    /\ \A b \in 1..MaxStarts :
          /\ WF_vars(b <= Len(bridge) /\ ThreadInsert(b))
          /\ WF_vars(b <= Len(bridge) /\ ThreadStopped(b))
          /\ WF_vars(b <= Len(bridge) /\ ThreadFinally(b))

\* ------------------------------------------------------------ worker pool
\* Clients that connect one after the other, each with its own websocket id,
\* and start a session; one more client than the pool has workers.
PoolIds == 1..(max_workers + 1)

InitPool ==
    /\ voice_agents = [i \in PoolIds |-> 0]
    /\ bridge = <<>>
    /\ nstarts = 0
    /\ startBudget = max_workers + 1
    /\ lastStart = [id |-> 0, found |-> 0, job |-> 0]
    /\ nstops = 0
    /\ stopSeen = {}
    /\ ManagerInit
    /\ BridgeInit
    /\ msgBudget = 0
    /\ chunkBudget = 0

\* websocket_endpoint, lines 233-249: start_voice_agent of the next new client
PoolStart ==
    /\ nstarts < startBudget
    /\ StartVoiceAgent(nstarts + 1)

\* websocket_endpoint, lines 251-258: stop_voice_agent of the first client
PoolStop ==
    /\ nstops < MaxStops
    /\ StopRequest(1)

\* The sessions of this specification stay in their loops; the first client
\* may send stop_voice_agent, the others do not.
NextPool ==
    \/ PoolStart
    \/ \E b \in 1..Len(bridge) : ThreadInsert(b)
    \/ PoolStop
    \/ \E b \in 1..Len(bridge) : ThreadStopped(b)
    \/ \E b \in 1..Len(bridge) : ThreadFinally(b)

SpecPool == InitPool /\ [][NextPool]_vars

\* The pool gives every idle worker the next queued job and a worker that has
\* left run goes through its finally; nothing obliges a session to end.
SpecPoolFair ==
    /\ InitPool
    /\ [][NextPool]_vars
    /\ \A b \in PoolIds :
          /\ WF_vars(b <= Len(bridge) /\ ThreadInsert(b))
          /\ WF_vars(b <= Len(bridge) /\ ThreadStopped(b))
          /\ WF_vars(b <= Len(bridge) /\ ThreadFinally(b))

\* ----------------------------------------------------- audio fan-out
\* the websocket ids in manager.active_connections
active_connections == { i \in DOMAIN conn : conn[i] = "open" }

\* Two clients; each session is started with browserAudio true or false
\* (voice_agent_data of its start_voice_agent message, main.py line 173).
InitFan ==
    /\ voice_agents = [i \in Ids |-> 0]
    /\ bridge = <<>>
    /\ nstarts = 0
    /\ startBudget = NumIds
    /\ lastStart = [id |-> 0, found |-> 0, job |-> 0]
    /\ nstops = 0
    /\ stopSeen = {}
    /\ conn = [i \in Ids |-> "new"]
    /\ audio_out \in [1..NumIds -> [browser_output : BOOLEAN, produced : {0}, played : {0}]]
    /\ received = [i \in Ids |-> {}]
    /\ BridgeInit
    /\ SpeakerInit
    /\ msgBudget = 0
    /\ chunkBudget = 0

\* websocket_endpoint, line 225, and ConnectionManager.connect, lines 21-25: the
\* connection is accepted and entered into active_connections
Connect(i) ==
    /\ conn[i] = "new"
    /\ conn' = [conn EXCEPT ![i] = "open"]
    /\ UNCHANGED <<audio_out, received>>
    /\ UNCHANGED <<voice_agents, bridge, nstarts, startBudget, lastStart, nstops, stopSeen>>
    /\ UNCHANGED <<bridgeVars, speakerVars>>

\* websocket_endpoint, lines 317-326, and ConnectionManager.disconnect, lines
\* 27-31: the client goes away and its connection leaves active_connections;
\* nothing is done to its session
Disconnect(i) ==
    /\ conn[i] = "open"
    /\ conn' = [conn EXCEPT ![i] = "closed"]
    /\ UNCHANGED <<audio_out, received>>
    /\ UNCHANGED <<voice_agents, bridge, nstarts, startBudget, lastStart, nstops, stopSeen>>
    /\ UNCHANGED <<bridgeVars, speakerVars>>

\* websocket_endpoint, lines 228-249: start_voice_agent read from the open
\* connection i
FanStart(i) ==
    /\ conn[i] = "open"
    /\ StartVoiceAgent(i)

\* receiver, lines 312-314: a binary frame from the service is put on the
\* queue of the session's own Speaker
AgentAudio(b) ==
    /\ bridge[b].pc = "running"
    /\ audio_out[b].produced < MaxOutFrames
    /\ audio_out' = [audio_out EXCEPT ![b].produced = @ + 1]
    /\ UNCHANGED <<conn, received>>
    /\ UNCHANGED <<voice_agents, bridge, nstarts, startBudget, lastStart, nstops, stopSeen>>
    /\ UNCHANGED <<bridgeVars, speakerVars>>

\* the audio_output message of job b's playback thread for its frame seq
AudioOutput(b, seq) == [type |-> "audio_output", session |-> bridge[b].owner, job |-> b, seq |-> seq]

\* _play_audio, lines 125-158, one iteration of the playback thread of job b:
\* a frame is taken from the session's queue; with browser output one
\* audio_output message is handed to manager.send_json for every websocket
\* in manager.active_connections (lines 136-148), otherwise the frame is
\* written to the local stream (152-154).
PlayAudio(b) ==
    /\ bridge[b].pc = "running"
    /\ audio_out[b].played < audio_out[b].produced
    /\ audio_out' = [audio_out EXCEPT ![b].played = @ + 1]
    /\ received' = IF audio_out[b].browser_output
                   THEN [c \in DOMAIN received |->
                            IF c \in active_connections
                            THEN received[c] \cup {AudioOutput(b, audio_out[b].played)}
                            ELSE received[c]]
                   ELSE received
    /\ UNCHANGED conn
    /\ UNCHANGED <<voice_agents, bridge, nstarts, startBudget, lastStart, nstops, stopSeen>>
    /\ UNCHANGED <<bridgeVars, speakerVars>>

NextFan ==
    \/ \E i \in Ids : Connect(i)
    \/ \E i \in Ids : Disconnect(i)
    \/ \E i \in Ids : FanStart(i)
    \/ \E b \in 1..Len(bridge) : ThreadInsert(b)
    \/ \E b \in 1..Len(bridge) : AgentAudio(b)
    \/ \E b \in 1..Len(bridge) : PlayAudio(b)
    \/ \E b \in 1..Len(bridge) : ThreadRunReturns(b)
    \/ \E b \in 1..Len(bridge) : ThreadFinally(b)

SpecFan == InitFan /\ [][NextFan]_vars

\* ================================================================= claims
\* the jobs of websocket id i whose bridge is created and running
Running(i) == { b \in 1..Len(bridge) : bridge[b].owner = i /\ bridge[b].pc = "running" }

\* C1: for any interleaving of start_voice_agent requests for one websocket
\* id, at most one bridge is created and running for that id at any time.
C1_SingleBridgePerId == \A i \in Ids : Cardinality(Running(i)) <= 1

\* C2: a start_voice_agent handled while the registry holds an entry for its
\* websocket id creates no bridge, submits no job to the pool and leaves the
\* registry, that entry included, as it was.
C2_StartRejectedWhileRegistered ==
    [][\A i \in Ids :
         (nstarts' = nstarts + 1 /\ lastStart'.id = i /\ voice_agents[i] # 0)
            => (bridge' = bridge /\ voice_agents' = voice_agents)]_vars

\* a start_voice_agent was handled while an entry existed, and a bridge runs
C2_Witness ==
    /\ lastStart.found # 0
    /\ lastStart.job = 0
    /\ voice_agents[lastStart.id] = lastStart.found

\* ---------------------------------------------------- dispatcher claims
IsRequest(e, c) == e.ch = "in" /\ e.type = "FunctionCallRequest" /\ e.id = c
IsResp(e, c) == e.ch = "up" /\ e.type = "FunctionCallResponse" /\ e.id = c
IsInject(e, c) == e.ch = "up" /\ e.type = "InjectAgentMessage" /\ e.id = c
NResp(c) == Count(trace, LAMBDA e : IsResp(e, c))
NErrorResp(c) == Count(trace, LAMBDA e : IsResp(e, c) /\ e.info = "error")
\* the name requested by call c ("multiple" for a request with several functions)
Requested(c, name) == \E e \in Range(trace) : IsRequest(e, c) /\ e.info = name
HandlerRan(c) == \E e \in Range(trace) : e.ch = "ctl" /\ e.type = "handler" /\ e.id = c
HandlerEnded(c, o) ==
    \E e \in Range(trace) : e.ch = "ctl" /\ e.type = "handler" /\ e.id = c /\ e.info = o
\* the dispatcher has left call c
Left(c) == cur.id # c
\* the receiver task was ended by the loss of the upstream connection or by
\* the coordinator's cancellation, not by an error of its own
EndedFromOutside ==
    /\ rpc \in {"done", "cancelled"}
    /\ rcause \in {"ConnectionClosedError", "ConnectionClosedOK", "CancelledError"}

\* C3: a FunctionCallRequest with two or more functions is answered with an
\* error-shaped response and does not end the receiver task.
C3_MultiFunctionContained ==
    \A c \in 1..ncalls :
        Requested(c, "multiple") =>
            /\ rcause # "NotImplementedError"
            /\ Left(c) => (NErrorResp(c) = 1 \/ EndedFromOutside)

\* C4: an upstream text message that is not valid JSON is skipped; it does not
\* end the receiver task.
C4_DecodeErrorSkipped == rcause # "JSONDecodeError"

\* C5: when the handler of a dispatched function raises, the only response to
\* that call id is error-shaped, it is sent once unless the upstream connection
\* is gone or the task cancelled, and the exception does not end the receiver.
C5_HandlerErrorContained ==
    \A c \in 1..ncalls :
        HandlerEnded(c, "raised") =>
            /\ NResp(c) <= 1
            /\ NResp(c) = NErrorResp(c)
            /\ Left(c) => (NErrorResp(c) = 1 \/ EndedFromOutside)

\* a handler raised, its error response went out, and the receiver has since
\* dispatched and answered a later request
C5_Witness ==
    \E c \in 1..ncalls :
        /\ HandlerEnded(c, "raised")
        /\ NErrorResp(c) = 1
        /\ ncalls > c
        /\ NResp(c + 1) = 1
        /\ rpc = "recv"
        /\ ~shutdown_event

\* C6: a request for a name that is not in FUNCTION_MAP invokes no handler and
\* gets exactly one error-shaped response with its call id (unless the
\* upstream connection is gone or the task cancelled); the receiver goes on.
C6_UnknownFunctionAnswered ==
    \A c \in 1..ncalls :
        (\E e \in Range(trace) : IsRequest(e, c)
                                   /\ e.info \notin FUNCTION_MAP \cup {"multiple", "no_function", "bad_arguments"}) =>
            /\ ~HandlerRan(c)
            /\ NResp(c) <= 1
            /\ NResp(c) = NErrorResp(c)
            /\ Left(c) => (NErrorResp(c) = 1 \/ EndedFromOutside)

\* an unknown function was answered with an error and the receiver is reading
\* again with the shutdown signal unset
C6_Witness ==
    \E c \in 1..ncalls :
        /\ Requested(c, "no_such_function")
        /\ NErrorResp(c) = 1
        /\ rpc = "recv"
        /\ ws = "open"
        /\ ~shutdown_event

\* ------------------------------------------------- terminating sequence
\* positions in the trace of the steps of the terminating sequence (0: absent)
PosResponse(c) == First(trace, LAMBDA e : IsResp(e, c))
PosInject(c) == First(trace, LAMBDA e : IsInject(e, c))
PosSettle(c) == First(trace, LAMBDA e : e.ch = "ctl" /\ e.type = "settle" /\ e.id = c)
PosNotify == First(trace, LAMBDA e : e.ch = "client" /\ e.type = "voice_agent_stopped"
                                      /\ e.info = "end_call")
PosClose(c) == First(trace, LAMBDA e : e.ch = "ctl" /\ e.type = "ws_close" /\ e.id = c)
PosSignal(c) == First(trace, LAMBDA e : e.ch = "ctl" /\ e.type = "shutdown_set" /\ e.id = c)
IsAudioDone(e, c) == e.ch = "in" /\ e.type = "AgentAudioDone" /\ e.id = c
\* speaking-start evidence for the farewell text of call c
IsEvidence(e, c, text) ==
    /\ e.ch = "in"
    /\ e.id = c
    /\ \/ e.type = "AgentStartedSpeaking"
       \/ e.type = "ConversationText" /\ e.role = "assistant" /\ e.info = text
Once(P(_)) == Count(trace, P) <= 1
EndCalls == { c \in 1..ncalls : Requested(c, "end_call") }

C8_FarewellSpokenBeforeStop ==
    \A c \in EndCalls :
        (PosNotify > 0 \/ PosClose(c) > 0 \/ wsClosedBy = "end_call") =>
            \E i, j \in 1..Len(trace) :
                /\ 0 < PosInject(c)
                /\ PosInject(c) < i
                /\ i < j
                /\ IsEvidence(trace[i], c, trace[PosInject(c)].info)
                /\ IsAudioDone(trace[j], c)
                /\ PosNotify > 0 => j < PosNotify
                /\ PosClose(c) > 0 => j < PosClose(c)

\* the client was notified in a run where an AgentAudioDone had arrived before
\* any speaking-start evidence
C8_Witness ==
    \E c \in EndCalls :
        /\ PosNotify > 0
        /\ \E j \in 1..Len(trace) :
             /\ IsAudioDone(trace[j], c)
             /\ \A i \in 1..j : ~IsEvidence(trace[i], c, trace[PosInject(c)].info)

\* --------------------------------------------------------------- filler
FillerCalls == { c \in 1..ncalls : Requested(c, "agent_filler") /\ HandlerEnded(c, "returned") }
NInject(c) == Count(trace, LAMBDA e : IsInject(e, c))

\* C9 as claimed: the InjectAgentMessage of a filler call directly follows the
\* call's FunctionCallResponse among the messages sent upstream, nothing
\* between them.
C9_FillerAdjacent ==
    \A c \in FillerCalls :
        \A k \in 1..Len(UpSent) :
            IsInject(UpSent[k], c) => (k > 1 /\ IsResp(UpSent[k - 1], c))

\* C9 as amended: the one FunctionCallResponse of a filler call is sent before
\* its one InjectAgentMessage, and nothing but audio chunks of the outbound
\* loop is sent upstream between them; the dispatcher then returns to the
\* receiver loop.
C9_FillerOrder ==
    \A c \in FillerCalls :
        /\ NResp(c) <= 1
        /\ NErrorResp(c) = 0
        /\ NInject(c) <= 1
        /\ \A k \in 1..Len(UpSent) :
              IsInject(UpSent[k], c) =>
                  \E j \in 1..(k - 1) :
                      /\ IsResp(UpSent[j], c)
                      /\ \A l \in (j + 1)..(k - 1) : UpSent[l].type = "audio"
        /\ Left(c) => ((NResp(c) = 1 /\ NInject(c) = 1) \/ EndedFromOutside)

\* a filler call was answered and its text injected; the receiver reads on
C9_Witness ==
    \E c \in FillerCalls :
        /\ NResp(c) = 1
        /\ NInject(c) = 1
        /\ rpc = "recv"
        /\ ws = "open"
        /\ ~shutdown_event

\* ---------------------------------------------------------------- audio
\* C10: no frame that was queued when a Speaker.stop call began is ever
\* handed to the playback sink.
C10_FlushDiscardsQueued == snapshot \cap Range(sink) = {}

\* the frames pushed so far, in push order
Pushed == [i \in 1..nframes |-> i]
IsPrefix(a, b) == Len(a) <= Len(b) /\ SubSeq(b, 1, Len(a)) = a
Increasing(a) == \A i, j \in 1..Len(a) : i < j => a[i] < a[j]

\* C11: the frames handed to the sink are in push order, none twice; while no
\* Speaker.stop has been called they are the first pushed frames with none
\* skipped, and a frame the playback thread holds is the next one.
C11_PushOrderKept ==
    /\ Increasing(sink)
    /\ nflush = 0 =>
          /\ IsPrefix(sink, Pushed)
          /\ held # 0 => held = Len(sink) + 1

\* three frames were pushed and delivered with no flush
C11_Witness ==
    /\ nflush = 0
    /\ Len(sink) >= 3
    /\ speaker_active

\* where frame f is: the number of places that hold it
Places(f) ==
    Len(SelectSeq(queue, LAMBDA x : x = f))
    + Len(SelectSeq(sink, LAMBDA x : x = f))
    + (IF held = f THEN 1 ELSE 0)
    + (IF f \in discarded THEN 1 ELSE 0)

\* C12: while the Speaker is in use every pushed frame is in exactly one
\* place: waiting in the queue, held by the playback thread, handed to the
\* sink once, or discarded by a flush; never delivered and discarded, never
\* delivered twice; and a Speaker.stop that has begun returns.
C12_FlushPullSafe ==
    /\ [](speaker_active => \A f \in 1..nframes : Places(f) = 1)
    /\ [](Range(sink) \cap discarded = {})
    /\ ((rpc = "flush") ~> (rpc # "flush"))

\* the playback thread holds a frame that was queued when the running flush
\* began, and the flush has already discarded another
C12_Witness ==
    /\ rpc = "flush"
    /\ held # 0
    /\ held \in snapshot
    /\ discarded # {}
    /\ queue # <<>>

\* --------------------------------------------------------------- sender
\* the client audio chunks forwarded upstream, in the order they were sent
AudioSent ==
    LET a == SelectSeq(trace, LAMBDA e : e.ch = "up" /\ e.type = "audio")
    IN  [k \in 1..Len(a) |-> a[k].id]
\* the chunks accepted from the client, in the order the handler received them
Accepted == [k \in 1..nchunks |-> k]

\* C13: the chunks forwarded upstream are the first accepted chunks in their
\* order of arrival, each once, and nothing is forwarded once the sender task
\* has ended.
C13_SenderKeepsOrder ==
    /\ [](IsPrefix(AudioSent, Accepted))
    /\ [][(spc \in {"done", "cancelled"}) => (AudioSent' = AudioSent)]_vars

\* two chunks went upstream in order, the sender has ended and a chunk that
\* arrived before that is still in the queue
C13_Witness ==
    /\ Len(AudioSent) >= 2
    /\ spc \in {"done", "cancelled"}
    /\ mic_audio_queue # <<>>

\* ------------------------------------------------------------- shutdown
\* everything but the count of shutdown invocations
allButCount ==
    <<runpc, is_running, shutdown_event, ws, wsClosedBy, registered, rpc, rcause, cur,
      spc, mic_audio_queue, nchunks, nrecv, envVars, wpc, tasks, logVars, ncalls, trace,
      speakerVars, registryVars>>

C15_NoTaskOutlivesRun ==
    runpc \in {"finished", "returned"} =>
        /\ ~Pending(spc)
        /\ ~Pending(rpc)
        /\ wpc # "waiting"
        /\ tasks = {}

\* run returned after the shutdown signal fired while the receiver was in the
\* middle of a function call: both loops were cancelled
C15_Witness ==
    /\ runpc = "finished"
    /\ spc = "cancelled"
    /\ rpc = "cancelled"
    /\ wpc = "done"
    /\ \E c \in 1..ncalls : NResp(c) = 0 /\ HandlerRan(c)

\* ---------------------------------------------------------------- setup
\* setup has returned True: the Settings message went upstream
SetupSucceeded == Len(UpSent) > 0 /\ UpSent[1].type = "Settings"
\* run returned right after a setup that returned False
SetupFailed == runpc = "returned"

\* C16: the registry holds no entry for the websocket id of a bridge whose
\* setup has failed.
C16_FailedSetupNeverRegistered == SetupFailed => ~registered

\* C17: the sender and receiver tasks exist only once setup has succeeded;
\* after a failed setup no task was created, the running flag is false and
\* nothing was sent upstream.
C17_LoopsOnlyAfterSetup ==
    /\ (spc # "idle" \/ rpc # "idle" \/ wpc # "idle" \/ tasks # {} \/ is_running)
          => SetupSucceeded
    /\ SetupFailed =>
          /\ spc = "idle"
          /\ rpc = "idle"
          /\ wpc = "idle"
          /\ tasks = {}
          /\ ~is_running
          /\ ~speaker_active
          /\ UpSent = <<>>

\* setup failed after the connection was made, a stop request arrived, and
\* the worker has removed the entry
C17_Witness ==
    /\ SetupFailed
    /\ wsClosedBy = "peer"
    /\ shutdown_event
    /\ ~registered

\* ----------------------------------------------------- upstream disconnect
\* terminal notifications (voice_agent_stopped) sent to the client
NStopped == Count(trace, LAMBDA e : e.ch = "client" /\ e.type = "voice_agent_stopped")
\* the service dropped the connection abnormally while the session was running
UnexpectedDisconnect == wsClosedBy = "peer" /\ ws = "closed_err"

\* the receiver task met the closed connection (lines 316-323)
ObservedByReceiver == rcause = "ConnectionClosedError"
\* the sender task met it first: its send raised, the wait of run returned on
\* the sender alone, and run cancelled the receiver and the shutdown-wait task
ObservedBySender == spc = "done" /\ rcause = "CancelledError" /\ wpc = "cancelled"

\* C18: when a session has ended after an unexpected upstream disconnect that
\* one of its loops observed, the client was sent the stopped notification
\* exactly once and the shutdown signal is set, whichever loop observed it.
C18_DisconnectReportedOnce ==
    (UnexpectedDisconnect /\ runpc = "finished" /\ (ObservedByReceiver \/ ObservedBySender)) =>
        /\ NStopped = 1
        /\ shutdown_event

\* ------------------------------------------------------------ stop request
\* C19: a bridge that a client started and then asked to stop eventually
\* shuts down and its worker removes the registry entry, wherever the worker
\* was when the stop request was handled.
C19_StopLeadsToShutdown ==
    \A b \in 1..MaxStarts :
        (b \in stopSeen) ~> (b <= Len(bridge) /\ bridge[b].pc = "gone")

\* ------------------------------------------------------------ client drop
\* the session is over: signal set, run finished with both loops stopped,
\* upstream closed, registry entry removed
SessionShutDown ==
    /\ shutdown_event
    /\ runpc = "finished"
    /\ ~Pending(spc)
    /\ ~Pending(rpc)
    /\ ws # "open"
    /\ ~registered

\* C20: when the client-facing connection drops while the session is running,
\* the session is eventually shut down, with no need of an event from the
\* upstream side.
C20_ClientDropShutsDown ==
    (~client_connected /\ runpc = "waiting") ~> SessionShutDown

\* ------------------------------------------------------------------- C21
\* a terminal event of a session that passed setup: the shutdown signal was
\* raised (explicit stop, end_call), a loop has ended (CloseConnection, an
\* error), or the upstream connection is no longer open
TerminalEvent ==
    /\ runpc = "waiting"
    /\ \/ shutdown_event
       \/ rpc = "done"
       \/ spc = "done"
       \/ ws \in {"closing", "closed_ok", "closed_err"}

SessionEnded ==
    /\ runpc = "finished"
    /\ shutdown_event
    /\ ~is_running
    /\ tasks = {}
    /\ ~Pending(spc)
    /\ ~Pending(rpc)
    /\ ws \in {"closed_ok", "closed_err"}
    /\ session_id = ""
    /\ ~registered

C22_ShutdownClosesBoth ==
    (runpc = "finished" /\ nshutdown >= 1) =>
        /\ ws \in {"closed_ok", "closed_err"}
        /\ ~client_connected

\* ------------------------------------------------------------------- C23
\* C23: once shutdown is waiting for the close of the upstream connection it
\* returns, with the connection closed, whether or not the peer ever completes
\* the close handshake.
C23_ShutdownTerminates ==
    (runpc = "closing") ~>
        (runpc = "finished" /\ nshutdown >= 1 /\ ws \in {"closed_ok", "closed_err"})

\* shutdown has returned after the close timed out and the transport was dropped
C23_Witness ==
    /\ runpc = "finished"
    /\ nshutdown = 1
    /\ ws = "closed_err"
    /\ wsClosedBy = "shutdown"

\* ------------------------------------------------------------------- C24
\* the positions of the receiver inside the terminating-function sequence
EndCallSequence ==
    {"end_resp", "end_inject", "fw_start", "fw_done", "settle", "end_notify",
     "end_close", "end_closing"}

\* C24: after end_call is dispatched on an open upstream connection the
\* receiver eventually leaves the terminating-function sequence, whatever the
\* upstream sends or does not send.
C24_EndCallNeverWaitsForever ==
    (rpc = "end_resp" /\ ws = "open") ~> (rpc \notin EndCallSequence)

\* ------------------------------------------------------------------- C25
\* the step reads an upstream message of type t and records it
ReadsIn(t) ==
    /\ Len(trace') > Len(trace)
    /\ trace'[Len(trace) + 1].ch = "in"
    /\ trace'[Len(trace) + 1].type = t
    /\ nrecv' = nrecv + 1

\* C25: every ConversationText read from upstream while a logging session is
\* active (Welcome processed) gives the client one conversation_update with
\* its content and the conversation sink one new entry with its role and
\* content, in whatever phase of the session it is read.
C25_TextForwardedAndLogged ==
    [][(ReadsIn("ConversationText") /\ session_id # "") =>
          LET e == trace'[Len(trace) + 1]
          IN  /\ Len(trace') = Len(trace) + 2
              /\ trace'[Len(trace) + 2] = Ev("client", "conversation_update", 0, e.info)
              /\ conversation' = Append(conversation, [role |-> e.role, content |-> e.info])]_vars

\* ------------------------------------------------------------------- C26
\* C26: every UserStartedSpeaking read from upstream starts Speaker.stop at
\* once, and no further message is read before it has returned, in whatever
\* phase of the session it is read.
C26_SpeakingStartsFlush ==
    [][(ReadsIn("UserStartedSpeaking")) => (nflush' = nflush + 1 /\ rpc' = "flush")]_vars

\* ------------------------------------------------------------------- C27
\* the inbound loop processes a Welcome that carries session id X
ProcessesWelcome(X) ==
    /\ rpc = "recv"
    /\ Len(trace') = Len(trace) + 1
    /\ trace'[Len(trace')] = Ev("ctl", "start_session", 0, X)

NStartSession == Count(trace, LAMBDA e : e.ch = "ctl" /\ e.type = "start_session")

\* C27: after the inbound loop has processed a Welcome carrying id X the
\* conversation sink has an active session with id X, started once for that
\* Welcome (empty conversation, log file of X written), and the loop goes on
\* with the next message.
C27_WelcomeStartsSession ==
    [][\A X \in {RequestId} :
          ProcessesWelcome(X) =>
              /\ session_id' = X
              /\ conversation' = <<>>
              /\ log_file' = LogFileName(X)
              /\ persisted'[LogFileName(X)] = [session_id |-> X, conversation |-> <<>>]
              /\ rpc' = "recv"
              /\ rcause' = rcause
              /\ shutdown_event' = shutdown_event]_vars

\* a Welcome was processed and the loop went on to log a later message
C27_Witness ==
    /\ NStartSession = 1
    /\ session_id = RequestId
    /\ Len(conversation) >= 1
    /\ rpc = "recv"

\* ------------------------------------------------------------------- C28
\* the inbound loop hands a ConversationText to add_message
CallsAddMessage == rpc = "recv" /\ ReadsIn("ConversationText")
\* shutdown is invoked, and with it end_session
CallsEndSession ==
    \/ runpc = "waiting" /\ runpc' \in {"closing", "finished"}
    \/ runpc = "finished" /\ nshutdown' = nshutdown + 1

\* C28: add_message and end_session called while no session is active change
\* nothing in the sink (session id, conversation, log file, persisted files)
\* and raise nothing: the receiver stays in its loop.
C28_NoSessionNoOp ==
    [][(session_id = "" /\ (CallsAddMessage \/ CallsEndSession)) =>
          /\ UNCHANGED logVars
          /\ CallsAddMessage => (rpc' = "recv" /\ rcause' = rcause)]_vars

\* both were called without a session: a ConversationText was forwarded with
\* no Welcome before it, and shutdown ran twice
C28_Witness ==
    /\ NStartSession = 0
    /\ Count(trace, LAMBDA e : e.ch = "client" /\ e.type = "conversation_update") >= 1
    /\ nshutdown = 2
    /\ persisted = [f \in LogFiles |-> NoFile]

ByCloseConnection == wsClosedBy = "close_connection"

\* C30: once the inbound loop has received CloseConnection the upstream
\* connection is closed and the loop has ended normally; no further upstream
\* message is read, no voice_agent_stopped notification is sent, and the
\* session goes on to its end state.
C30_CloseConnectionEndsLoop ==
    /\ [](ByCloseConnection =>
            /\ ws = "closed_ok"
            /\ rpc = "done"
            /\ rcause = "normal"
            /\ NStopped = 0)
    /\ [][ByCloseConnection => (nrecv' = nrecv /\ trace' = trace)]_vars
    /\ (ByCloseConnection ~> SessionEnded)

C30_Witness ==
    /\ ByCloseConnection
    /\ SessionEnded
    /\ nrecv >= 2
    /\ nrecv < msgBudget

\* ------------------------------------------------------------------- C31
\* C31: a start_voice_agent for a new identifier eventually gets its bridge
\* created and running, however many other sessions stay in their loops.
C31_NoStarvation ==
    \A b \in PoolIds :
        (b <= Len(bridge) /\ bridge[b].pc = "queued") ~>
            (b <= Len(bridge) /\ bridge[b].pc # "queued")

\* ------------------------------------------------------------------- C32
\* C32: once the shutdown signal of a session is set it is never cleared, and
\* the running flag is false in every state in which the signal is set.
C32_ShuttingDownTerminal ==
    /\ [][shutdown_event => shutdown_event']_vars
    /\ [](shutdown_event => ~is_running)

\* ------------------------------------------------------------------- C33
\* the bodies of FunctionCallRequest that cannot be decoded into one call
Malformed(c) == Requested(c, "no_function") \/ Requested(c, "bad_arguments")

\* C33: a FunctionCallRequest with an empty functions list or with arguments
\* that are not JSON does not end the receiver task: it is answered with an
\* error-shaped response or skipped, and the session is not shut down by it.
C33_MalformedCallContained ==
    \A c \in 1..ncalls :
        Malformed(c) =>
            rcause \notin {"IndexError", "ArgumentsDecodeError"}

\* ------------------------------------------------------------------- C34
\* the worker of job b executes its finally in this step
Removes(b) == b <= Len(bridge) /\ bridge[b].pc = "finished" /\ bridge'[b].pc # "finished"

\* C34: removing an identifier that has no entry leaves the registry unchanged
\* and raises no error, removing it twice gives the registry that removing it
\* once gives, and the entries of the other identifiers are not affected; the
\* finally of every worker changes the registry in exactly this way.
C34_RemovalIdempotent ==
    /\ [](\A i \in DOMAIN voice_agents :
            LET once  == reset_voice_agent(voice_agents, i)
                twice == reset_voice_agent(once.reg, i)
            IN /\ ~once.raised /\ ~twice.raised
               /\ twice.reg = once.reg
               /\ (voice_agents[i] = 0) => (once.reg = voice_agents)
               /\ once.reg[i] = 0
               /\ \A j \in DOMAIN voice_agents : (j # i) => (once.reg[j] = voice_agents[j]))
    /\ [][\A b \in 1..MaxStarts :
            Removes(b) =>
                /\ bridge'[b].pc = "gone"
                /\ voice_agents'[bridge[b].owner] = 0
                /\ (voice_agents[bridge[b].owner] = 0) => (voice_agents' = voice_agents)
                /\ \A j \in DOMAIN voice_agents :
                      (j # bridge[b].owner) => (voice_agents'[j] = voice_agents[j])]_vars

\* two workers of one identifier have finished: one removed the entry, the
\* other found none and left the registry as it was
C34_Witness ==
    \E a, b \in 1..Len(bridge) :
        /\ a # b
        /\ bridge[a].owner = bridge[b].owner
        /\ bridge[a].pc = "gone" /\ bridge[a].del
        /\ bridge[b].pc = "gone" /\ ~bridge[b].del

\* ------------------------------------------------------------------- C35
\* C35: an audio_output message carrying a frame of one session's Audio
\* Output Buffer is sent only to the client connection of that session.
C35_AudioOnlyToOwnClient ==
    \A c \in DOMAIN received : \A m \in received[c] : m.session = c

\* ------------------------------------------------------------------- C36
\* C36: for every FunctionCallRequest with one function at most one
\* FunctionCallResponse with its call id is sent upstream, also when a step
\* of the filler or terminating sequence fails after the response was sent.
C36_AtMostOneResponse == \A c \in 1..ncalls : NResp(c) <= 1

\* ------------------------------------------------------------------- C37
\* C37: over the whole life of a session the client is sent at most one
\* stopped notification (voice_agent_stopped), whatever exit paths occur.
C37_AtMostOneStopped == NStopped <= 1

\* ------------------------------------------------------------------- C38
\* C38: from the insertion of a bridge into the registry until the end of
\* that bridge's run the registry entry of its identifier refers to that
\* bridge, so a running bridge is always reachable for stop_voice_agent and
\* audio_data messages.
C38_RunningBridgeRegistered ==
    \A b \in 1..Len(bridge) :
        (bridge[b].pc = "running") => (voice_agents[bridge[b].owner] = b)

\* ------------------------------------------------------------------- C39
\* C39: between its creation and its shutdown the conversation log of a
\* bridge is append-only: every entry stays in the log, in its position and
\* unmodified, after any later upstream message.
C39_LogAppendOnly ==
    [][(nrecv' = nrecv + 1) => IsPrefix(conversation, conversation')]_vars

====
